---- MODULE Spec2Model ----
(***************************************************************************)
(* A model of the Deqode CHP stabilizer simulator: the StabilizerTableau   *)
(* class of deqode/chp_sim.py (constructor, zero, rowsum, h, phase, cnot,  *)
(* measure), the gates of deqode/gate.py and Circuit of deqode/circuit.py. *)
(*                                                                         *)
(* A matrix is a function from row index 0..r-1 to a function from column  *)
(* index 0..c-1 to BOOLEAN (the numpy bool array _bmatrix).  A call on the *)
(* tableau is a pure operator from the matrix and the arguments to a       *)
(* result record [m, err, ret, branch]: the matrix the call leaves behind, *)
(* the exception it raised ("none" when it returned), the value returned   *)
(* (<<>> for None, <<v>> for a value) and the branch measure took.         *)
(***************************************************************************)
EXTENDS Integers, Sequences, FiniteSets, TLC

VARIABLES
    bmatrix,    \* StabilizerTableau._bmatrix; NoTableau when no object exists
    calls,      \* the calls made so far, oldest first (history of call records)
    gates,      \* Circuit._gates
    samples     \* the values returned by Circuit.sample(), oldest first

vars == <<bmatrix, calls, gates, samples>>

(***************************************************************************)
(* Bounds of the model.                                                    *)
(***************************************************************************)
MaxN == 2        \* largest qubit count explored
MaxOps == 4      \* calls per behaviour from zero(n) (Spec)
MaxCalls == 4    \* calls per behaviour on a constructed tableau (SpecAny)
MaxFlips == 1    \* entries of a constructor argument off the zero pattern
MaxGates == 2    \* gates appended to a Circuit (SpecCircuit)
MaxSamples == 2  \* Circuit.sample() calls per behaviour (SpecCircuit)

NoTableau == <<>>

\* Python's int() of a bool
int(v) == IF v THEN 1 ELSE 0

Xor(p, q) == p # q

(***************************************************************************)
(* numpy array access.                                                     *)
(***************************************************************************)
Rows(m) == Cardinality(DOMAIN m)

Cols(m) == IF Rows(m) = 0 THEN 0 ELSE Cardinality(DOMAIN m[0])

\* m[i, j] = v
Set(m, i, j, v) == [m EXCEPT ![i] = [@ EXCEPT ![j] = v]]

\* index -1 of an axis: its last position
LastIx(m) == Cols(m) - 1

ZeroRow(c) == [j \in 0..(c - 1) |-> FALSE]

(***************************************************************************)
(* Results of a call.                                                      *)
(***************************************************************************)
Returned(m, ret, branch) == [m |-> m, err |-> "none", ret |-> ret, branch |-> branch]

Raised(m, err) == [m |-> m, err |-> err, ret |-> <<>>, branch |-> "none"]

(***************************************************************************)
(* StabilizerTableau.__init__, nqubits, zero.                              *)
(***************************************************************************)
nqubits(m) == (Rows(m) - 1) \div 2

\* __init__ without the comparison of the two dimensions
initNoSquare(matrix) ==
    IF Rows(matrix) % 2 = 0 THEN Raised(NoTableau, "ValueError")
    ELSE Returned(matrix, <<>>, "none")

init(matrix) ==
    IF Rows(matrix) % 2 = 0 THEN Raised(NoTableau, "ValueError")
    ELSE IF Cols(matrix) # Rows(matrix) THEN Raised(NoTableau, "ValueError")
    ELSE Returned(matrix, <<>>, "none")

zeroMatrix(n) ==
    [i \in 0..(2 * n) |-> [j \in 0..(2 * n) |-> (i = j) /\ (i < 2 * n)]]

zero(n) == init(zeroMatrix(n))

\* a in range(0, self.nqubits)
InRange(m, a) == a \in 0..(nqubits(m) - 1)

(***************************************************************************)
(* StabilizerTableau.rowsum.                                               *)
(***************************************************************************)
\* g with the sign of the case x1 and not z1 turned round
gTurned(x1, z1, x2, z2) ==
    IF (~x1) /\ (~z1) THEN 0
    ELSE IF x1 /\ z1 THEN int(z2) - int(x2)
    ELSE IF x1 /\ (~z1) THEN int(z2) * (1 - 2 * int(x2))
    ELSE int(x2) * (1 - 2 * int(z2))

g(x1, z1, x2, z2) ==
    IF (~x1) /\ (~z1) THEN 0
    ELSE IF x1 /\ z1 THEN int(z2) - int(x2)
    ELSE IF x1 /\ (~z1) THEN int(z2) * (2 * int(x2) - 1)
    ELSE int(x2) * (1 - 2 * int(z2))

RECURSIVE gsumLoop(_, _, _, _)
gsumLoop(m, h, i, j) ==
    IF j >= nqubits(m) THEN 0
    ELSE g(m[i][j], m[i][j + nqubits(m)], m[h][j], m[h][j + nqubits(m)])
         + gsumLoop(m, h, i, j + 1)

\* the value whose being non-zero is the new sign bit of row h
rowsumPhase(m, h, i) ==
    (2 * int(m[i][LastIx(m)]) + 2 * int(m[h][LastIx(m)]) + gsumLoop(m, h, i, 0)) % 4

\* rowsumSign that forgets the sign bit of row i
rowsumSignNoRi(m, h, i) ==
    Set(m, h, LastIx(m), (2 * int(m[h][LastIx(m)]) + gsumLoop(m, h, i, 0)) % 4 # 0)

rowsumSign(m, h, i) == Set(m, h, LastIx(m), rowsumPhase(m, h, i) # 0)

rowsumXorCol(m, h, i, j) ==
    LET n  == nqubits(m)
        m1 == Set(m, h, j, Xor(m[i][j], m[h][j]))
    IN  Set(m1, h, j + n, Xor(m1[i][j + n], m1[h][j + n]))

RECURSIVE rowsumXorLoop(_, _, _, _)
rowsumXorLoop(m, h, i, j) ==
    IF j >= nqubits(m) THEN m
    ELSE rowsumXorLoop(rowsumXorCol(m, h, i, j), h, i, j + 1)

rowsum(m, h, i) == rowsumXorLoop(rowsumSign(m, h, i), h, i, 0)

(***************************************************************************)
(* StabilizerTableau.h.                                                    *)
(***************************************************************************)
\* hRow without the update of the sign bit
hRowNoSign(m, a, i) ==
    LET n    == nqubits(m)
        temp == m[i][a]
        m2   == Set(m, i, a, m[i][a + n])
    IN  Set(m2, i, a + n, temp)

\* hRow with the swap written without the temporary
hRowNoTemp(m, a, i) ==
    LET n  == nqubits(m)
        m1 == Set(m, i, LastIx(m), Xor(m[i][LastIx(m)], m[i][a] /\ m[i][a + n]))
        m2 == Set(m1, i, a, m1[i][a + n])
    IN  Set(m2, i, a + n, m2[i][a])

hRow(m, a, i) ==
    LET n    == nqubits(m)
        m1   == Set(m, i, LastIx(m), Xor(m[i][LastIx(m)], m[i][a] /\ m[i][a + n]))
        temp == m1[i][a]
        m2   == Set(m1, i, a, m1[i][a + n])
    IN  Set(m2, i, a + n, temp)

RECURSIVE hLoop(_, _, _)
hLoop(m, a, i) ==
    IF i >= 2 * nqubits(m) THEN m ELSE hLoop(hRow(m, a, i), a, i + 1)

h(m, a) ==
    IF ~InRange(m, a) THEN Raised(m, "AssertionError")
    ELSE Returned(hLoop(m, a, 0), <<>>, "none")

(***************************************************************************)
(* StabilizerTableau.phase.  The loop body writes the sign bit through     *)
(* self._bmatrix and then reads self._matrix, an attribute __init__ never  *)
(* sets (the class only has the property matrix and the attribute          *)
(* _bmatrix), so the attribute lookup raises AttributeError.               *)
(***************************************************************************)
Attributes == {"_bmatrix"}

HasAttr(name) == name \in Attributes

\* r_i <- r_i oplus x_ia z_ia
phaseSign(m, a, i) ==
    Set(m, i, LastIx(m), Xor(m[i][LastIx(m)], m[i][a] /\ m[i][a + nqubits(m)]))

RECURSIVE phaseLoop(_, _, _)
phaseLoop(m, a, i) ==
    IF i >= 2 * nqubits(m) THEN Returned(m, <<>>, "none")
    ELSE IF ~HasAttr("_matrix") THEN Raised(phaseSign(m, a, i), "AttributeError")
    ELSE phaseLoop(phaseSign(m, a, i), a, i + 1)

phase(m, a) ==
    IF ~InRange(m, a) THEN Raised(m, "AssertionError")
    ELSE phaseLoop(m, a, 0)

(***************************************************************************)
(* StabilizerTableau.cnot.                                                 *)
(***************************************************************************)
\* cnotRow with x_ib <- x_ib or x_ia in place of the exclusive or
cnotRowOr(m, a, b, i) ==
    LET n    == nqubits(m)
        x_ia == m[i][a]
        x_ib == m[i][b]
        z_ia == m[i][a + n]
        z_ib == m[i][b + n]
        m1   == Set(m, i, LastIx(m),
                    Xor(m[i][LastIx(m)], x_ia /\ z_ib /\ Xor(Xor(x_ib, z_ia), TRUE)))
        m2   == Set(m1, i, b, x_ib \/ x_ia)
    IN  Set(m2, i, a + n, Xor(z_ia, z_ib))

\* cnotRow reading x_ib for the sign bit after x_ib was written
cnotRowLateRead(m, a, b, i) ==
    LET n    == nqubits(m)
        x_ia == m[i][a]
        z_ia == m[i][a + n]
        z_ib == m[i][b + n]
        m1   == Set(m, i, b, Xor(m[i][b], x_ia))
        m2   == Set(m1, i, LastIx(m),
                    Xor(m1[i][LastIx(m)], x_ia /\ z_ib /\ Xor(Xor(m1[i][b], z_ia), TRUE)))
    IN  Set(m2, i, a + n, Xor(z_ia, z_ib))

\* cnotRow with the Z update landing on the target instead of the control
cnotRowZTarget(m, a, b, i) ==
    LET n    == nqubits(m)
        x_ia == m[i][a]
        x_ib == m[i][b]
        z_ia == m[i][a + n]
        z_ib == m[i][b + n]
        m1   == Set(m, i, LastIx(m),
                    Xor(m[i][LastIx(m)], x_ia /\ z_ib /\ Xor(Xor(x_ib, z_ia), TRUE)))
        m2   == Set(m1, i, b, Xor(x_ib, x_ia))
    IN  Set(m2, i, b + n, Xor(z_ia, z_ib))

cnotRow(m, a, b, i) ==
    LET n    == nqubits(m)
        x_ia == m[i][a]
        x_ib == m[i][b]
        z_ia == m[i][a + n]
        z_ib == m[i][b + n]
        m1   == Set(m, i, LastIx(m),
                    Xor(m[i][LastIx(m)], x_ia /\ z_ib /\ Xor(Xor(x_ib, z_ia), TRUE)))
        m2   == Set(m1, i, b, Xor(x_ib, x_ia))
    IN  Set(m2, i, a + n, Xor(z_ia, z_ib))

RECURSIVE cnotLoop(_, _, _, _)
cnotLoop(m, a, b, i) ==
    IF i >= 2 * nqubits(m) THEN m ELSE cnotLoop(cnotRow(m, a, b, i), a, b, i + 1)

\* cnot without the assert a != b
cnotNoDistinct(m, a, b) ==
    IF ~InRange(m, a) THEN Raised(m, "AssertionError")
    ELSE IF ~InRange(m, b) THEN Raised(m, "AssertionError")
    ELSE Returned(cnotLoop(m, a, b, 0), <<>>, "none")

cnot(m, a, b) ==
    IF ~InRange(m, a) THEN Raised(m, "AssertionError")
    ELSE IF ~InRange(m, b) THEN Raised(m, "AssertionError")
    ELSE IF a = b THEN Raised(m, "AssertionError")
    ELSE Returned(cnotLoop(m, a, b, 0), <<>>, "none")

(***************************************************************************)
(* StabilizerTableau.measure.  bit is the value of random.random() > 0.5,  *)
(* read in the random branch only.                                         *)
(***************************************************************************)
\* the rows p in range(n, 2n) with x_pa set
\* XRows scanning range(0, 2n): the destabilizer rows too
XRowsAll(m, a) == {p \in 0..(2 * nqubits(m) - 1) : m[p][a]}

XRows(m, a) == {p \in nqubits(m)..(2 * nqubits(m) - 1) : m[p][a]}

p_exists(m, a) == XRows(m, a) # {}

\* the row the scan stops at (the break on the first hit)
FirstP(m, a) == CHOOSE p \in XRows(m, a) : \A q \in XRows(m, a) : p <= q

\* randomLoop over the stabilizer rows only: it starts at row n
RECURSIVE randomLoopStabilizers(_, _, _, _)
randomLoopStabilizers(m, a, p, i) ==
    IF i >= 2 * nqubits(m) THEN m
    ELSE IF i < nqubits(m) THEN randomLoopStabilizers(m, a, p, i + 1)
    ELSE IF i # p /\ m[i][a] THEN randomLoopStabilizers(rowsum(m, i, p), a, p, i + 1)
    ELSE randomLoopStabilizers(m, a, p, i + 1)

RECURSIVE randomLoop(_, _, _, _)
randomLoop(m, a, p, i) ==
    IF i >= 2 * nqubits(m) THEN m
    ELSE IF i # p /\ m[i][a] THEN randomLoop(rowsum(m, i, p), a, p, i + 1)
    ELSE randomLoop(m, a, p, i + 1)

\* measureRandom without the copy of row p into row p-n
measureRandomNoCopy(m, a, p, bit) ==
    LET n  == nqubits(m)
        m1 == randomLoop(m, a, p, 0)
        m3 == [m1 EXCEPT ![p] = ZeroRow(2 * n + 1)]
        m4 == Set(m3, p, LastIx(m3), bit)
        m5 == Set(m4, p, a + n, TRUE)
    IN  Returned(m5, <<m5[p][LastIx(m5)]>>, "random")

measureRandom(m, a, p, bit) ==
    LET n  == nqubits(m)
        m1 == randomLoop(m, a, p, 0)
        m2 == [m1 EXCEPT ![p - n] = m1[p]]
        m3 == [m2 EXCEPT ![p] = ZeroRow(2 * n + 1)]
        m4 == Set(m3, p, LastIx(m3), bit)
        m5 == Set(m4, p, a + n, TRUE)
    IN  Returned(m5, <<m5[p][LastIx(m5)]>>, "random")

\* deterministicLoop combining row i in place of row i + n
RECURSIVE deterministicLoopDestabilizers(_, _, _)
deterministicLoopDestabilizers(m, a, i) ==
    IF i >= nqubits(m) THEN m
    ELSE IF m[i][a]
         THEN deterministicLoopDestabilizers(rowsum(m, 2 * nqubits(m), i), a, i + 1)
    ELSE deterministicLoopDestabilizers(m, a, i + 1)

RECURSIVE deterministicLoop(_, _, _)
deterministicLoop(m, a, i) ==
    IF i >= nqubits(m) THEN m
    ELSE IF m[i][a]
         THEN deterministicLoop(rowsum(m, 2 * nqubits(m), i + nqubits(m)), a, i + 1)
    ELSE deterministicLoop(m, a, i + 1)

\* measureDeterministic without the zeroing of the scratch row
measureDeterministicNoZero(m, a) ==
    LET m2 == deterministicLoop(m, a, 0)
    IN  Returned(m2, <<m2[Rows(m2) - 1][LastIx(m2)]>>, "deterministic")

measureDeterministic(m, a) ==
    LET m1 == [m EXCEPT ![Rows(m) - 1] = ZeroRow(Cols(m))]
        m2 == deterministicLoop(m1, a, 0)
    IN  Returned(m2, <<m2[Rows(m2) - 1][LastIx(m2)]>>, "deterministic")

\* the values (2 * ri + 2 * rh + gsum) % 4 of the calls rowsum(2n, i + n) the
\* deterministic branch makes from pass i on
RECURSIVE deterministicPhases(_, _, _)
deterministicPhases(m, a, i) ==
    IF i >= nqubits(m) THEN {}
    ELSE IF m[i][a]
         THEN {rowsumPhase(m, 2 * nqubits(m), i + nqubits(m))}
              \cup deterministicPhases(rowsum(m, 2 * nqubits(m), i + nqubits(m)), a, i + 1)
    ELSE deterministicPhases(m, a, i + 1)

measure(m, a, bit) ==
    IF ~InRange(m, a) THEN Raised(m, "AssertionError")
    ELSE IF p_exists(m, a) THEN measureRandom(m, a, FirstP(m, a), bit)
    ELSE measureDeterministic(m, a)

(***************************************************************************)
(* The state machine.  A call record keeps what the call was given and     *)
(* what it did: op, args (the integer arguments), given (the matrix handed *)
(* to the constructor, NoTableau for every other call), pre (the matrix    *)
(* before the call), err, ret and branch.                                  *)
(***************************************************************************)
CallRecord(pre, op, args, given, r) ==
    [op |-> op, args |-> args, given |-> given, pre |-> pre,
     err |-> r.err, ret |-> r.ret, branch |-> r.branch]

\* the call leaves r.m behind and joins the history
Call(op, args, given, r) ==
    /\ bmatrix' = r.m
    /\ calls' = Append(calls, CallRecord(bmatrix, op, args, given, r))
    /\ UNCHANGED <<gates, samples>>

Exists == bmatrix # NoTableau

Qubits == 0..(nqubits(bmatrix) - 1)

\* the row indices of the matrix
RowIndices == 0..(Rows(bmatrix) - 1)

\* the qubit indices and one index off either end
Indices == (-1)..nqubits(bmatrix)

H(a) == Exists /\ Call("h", <<a>>, NoTableau, h(bmatrix, a))

Phase(a) == Exists /\ Call("phase", <<a>>, NoTableau, phase(bmatrix, a))

Cnot(a, b) == Exists /\ Call("cnot", <<a, b>>, NoTableau, cnot(bmatrix, a, b))

\* rowsum is a method like the others; it returns None
Rowsum(h_, i) ==
    Exists /\ Call("rowsum", <<h_, i>>, NoTableau, Returned(rowsum(bmatrix, h_, i), <<>>, "none"))

\* the random bit is a different input only where measure reads it
Measure(a, bit) ==
    /\ Exists
    /\ (InRange(bmatrix, a) /\ p_exists(bmatrix, a)) \/ ~bit
    /\ Call("measure", <<a>>, NoTableau, measure(bmatrix, a, bit))

(***************************************************************************)
(* Spec: a tableau made by zero(n), 1 <= n <= MaxN, and then at most       *)
(* MaxOps calls of h, cnot and measure with in-range arguments, in any     *)
(* order.                                                                  *)
(***************************************************************************)
Init ==
    /\ \E n \in 1..MaxN : bmatrix = zero(n).m
    /\ calls = <<>>
    /\ gates = <<>>
    /\ samples = <<>>

More == Len(calls) < MaxOps

Next ==
    \/ \E a \in Qubits : More /\ H(a)
    \/ \E a \in Qubits : \E b \in Qubits \ {a} : More /\ Cnot(a, b)
    \/ \E a \in Qubits, bit \in BOOLEAN : More /\ Measure(a, bit)

Spec == Init /\ [][Next]_vars

(***************************************************************************)
(* SpecAny: a tableau made by the constructor from a caller's matrix or by *)
(* zero(n); then one call of h, phase, cnot or measure with any argument   *)
(* in Indices, and that same call again (h also on the next qubit), up to  *)
(* MaxCalls calls in a row.                                                *)
(* The caller's matrices are those of every shape up to                    *)
(* (2 * MaxN + 1) x (2 * MaxN + 1) that differ in at most MaxFlips entries *)
(* from the pattern zero builds (the diagonal of all rows but the last),   *)
(* the (2n+1) x (2n+1) matrices, n <= MaxN, that differ from that pattern  *)
(* in one row, which holds any bits, and the two matrices the tests        *)
(* construct.                                                              *)
(***************************************************************************)
Dims == 0..(2 * MaxN + 1)

Diagonal(r, c) == [i \in 0..(r - 1) |-> [j \in 0..(c - 1) |-> (i = j) /\ (i < r - 1)]]

Cells(r, c) == (0..(r - 1)) \X (0..(c - 1))

\* the sets of at most k cells
RECURSIVE CellSets(_, _, _)
CellSets(r, c, k) ==
    IF k = 0 THEN {{}}
    ELSE CellSets(r, c, k - 1)
         \cup {S \cup {cell} : S \in CellSets(r, c, k - 1), cell \in Cells(r, c)}

Flipped(m, S) ==
    [i \in DOMAIN m |-> [j \in DOMAIN m[i] |-> Xor(m[i][j], <<i, j>> \in S)]]

Matrices(r, c, k) == {Flipped(Diagonal(r, c), S) : S \in CellSets(r, c, k)}

\* no constructor has been called yet
\* the zero(n) matrix with one row, the scratch row too, replaced by any bits
MatricesOneRow(n) ==
    {[zeroMatrix(n) EXCEPT ![i] = row] :
        i \in 0..(2 * n), row \in [0..(2 * n) -> BOOLEAN]}

Unbuilt == ~Exists /\ calls = <<>>

Construct(matrix) == Unbuilt /\ Call("init", <<>>, matrix, init(matrix))

Zero(n) == Unbuilt /\ Call("zero", <<n>>, NoTableau, zero(n))

\* the matrices the tests hand to the constructor: |00> and the Bell state
FromRows(rows) ==
    [i \in 0..(Len(rows) - 1) |-> [j \in 0..(Len(rows[i + 1]) - 1) |-> rows[i + 1][j + 1]]]

Test00Matrix ==
    FromRows(<< <<TRUE, FALSE, FALSE, FALSE, FALSE>>,
                <<FALSE, TRUE, FALSE, FALSE, FALSE>>,
                <<FALSE, FALSE, TRUE, FALSE, FALSE>>,
                <<FALSE, FALSE, FALSE, TRUE, FALSE>>,
                <<FALSE, FALSE, FALSE, FALSE, FALSE>> >>)

TestBellMatrix ==
    FromRows(<< <<TRUE, FALSE, FALSE, FALSE, FALSE>>,
                <<FALSE, FALSE, TRUE, FALSE, FALSE>>,
                <<FALSE, FALSE, TRUE, TRUE, FALSE>>,
                <<TRUE, TRUE, FALSE, FALSE, FALSE>>,
                <<FALSE, FALSE, FALSE, FALSE, FALSE>> >>)

TestMatrices == {Test00Matrix, TestBellMatrix}

\* the matrices the tests expect after h(0); h(1)
Test00Target ==
    FromRows(<< <<FALSE, FALSE, TRUE, FALSE, FALSE>>,
                <<FALSE, FALSE, FALSE, TRUE, FALSE>>,
                <<TRUE, FALSE, FALSE, FALSE, FALSE>>,
                <<FALSE, TRUE, FALSE, FALSE, FALSE>>,
                <<FALSE, FALSE, FALSE, FALSE, FALSE>> >>)

TestBellTarget ==
    FromRows(<< <<FALSE, FALSE, TRUE, FALSE, FALSE>>,
                <<TRUE, FALSE, FALSE, FALSE, FALSE>>,
                <<TRUE, TRUE, FALSE, FALSE, FALSE>>,
                <<FALSE, FALSE, TRUE, TRUE, FALSE>>,
                <<FALSE, FALSE, FALSE, FALSE, FALSE>> >>)

\* the arguments of the next pass of a loop over the qubits
Advanced(args) == [k \in DOMAIN args |-> args[k] + 1]

\* the next call is the first on the tableau, or the latest call once more
Turn(op, args) ==
    \/ Len(calls) = 1
    \/ /\ Len(calls) > 1
       /\ Len(calls) < MaxCalls + 1
       /\ calls[Len(calls)].op = op
       /\ calls[Len(calls)].args = args

\* the next call is the latest call on the next qubit (tableau.h(0) and then
\* tableau.h(1); tableau.h(i) for i in range(nq))
Sweep(op, args) ==
    /\ Len(calls) > 1
    /\ Len(calls) < MaxCalls + 1
    /\ calls[Len(calls)].op = op
    /\ Advanced(calls[Len(calls)].args) = args

InitAny ==
    /\ bmatrix = NoTableau
    /\ calls = <<>>
    /\ gates = <<>>
    /\ samples = <<>>

NextAny ==
    \/ Unbuilt /\ \E r \in Dims, c \in Dims :
                      \E matrix \in Matrices(r, c, MaxFlips) : Construct(matrix)
    \/ Unbuilt /\ \E n \in 0..MaxN : \E matrix \in MatricesOneRow(n) : Construct(matrix)
    \/ Unbuilt /\ \E matrix \in TestMatrices : Construct(matrix)
    \/ Unbuilt /\ \E n \in 0..MaxN : Zero(n)
    \/ \E a \in Indices : Turn("h", <<a>>) /\ H(a)
    \/ \E a \in Indices : Sweep("h", <<a>>) /\ H(a)
    \/ \E a \in Indices : Turn("phase", <<a>>) /\ Phase(a)
    \/ \E a \in Indices, b \in Indices : Turn("cnot", <<a, b>>) /\ Cnot(a, b)
    \/ \E a \in Indices, bit \in BOOLEAN : Turn("measure", <<a>>) /\ Measure(a, bit)

SpecAny == InitAny /\ [][NextAny]_vars

(***************************************************************************)
(* SpecRowsum: rowsum as a function of the matrix and of its two           *)
(* arguments.  The tableau holds the zero(n) matrix, 1 <= n <= MaxN, with  *)
(* rows 0 and 1 replaced by any bits, and one call rowsum(h, i) on any two *)
(* rows follows.                                                           *)
(***************************************************************************)
MatricesTwoRows(n) ==
    {[zeroMatrix(n) EXCEPT ![0] = row0, ![1] = row1] :
        row0 \in [0..(2 * n) -> BOOLEAN], row1 \in [0..(2 * n) -> BOOLEAN]}

InitRowsum ==
    /\ \E n \in 1..MaxN : bmatrix \in {init(matrix).m : matrix \in MatricesTwoRows(n)}
    /\ calls = <<>>
    /\ gates = <<>>
    /\ samples = <<>>

NextRowsum ==
    \/ calls = <<>> /\ \E h_ \in RowIndices, i \in RowIndices : Rowsum(h_, i)

SpecRowsum == InitRowsum /\ [][NextRowsum]_vars

(***************************************************************************)
(* deqode/gate.py: HadamardGate, CNOTGate, MeasureGate and their apply_to. *)
(* targets is the Python list _targets, so _targets[0] is targets[1] here. *)
(***************************************************************************)
HadamardGate(target) == [name |-> "H", targets |-> <<target>>, is_measure |-> FALSE]

CNOTGate(ctrl, target) == [name |-> "CX", targets |-> <<ctrl, target>>, is_measure |-> FALSE]

MeasureGate(target) == [name |-> "M", targets |-> <<target>>, is_measure |-> TRUE]

\* the call on the tableau that gate.apply_to makes
apply_op(gate) ==
    CASE gate.name = "H" -> "h"
      [] gate.name = "CX" -> "cnot"
      [] gate.name = "M" -> "measure"

apply_to(gate, m, bit) ==
    CASE gate.name = "H" -> h(m, gate.targets[1])
      [] gate.name = "CX" -> cnot(m, gate.targets[1], gate.targets[2])
      [] gate.name = "M" -> measure(m, gate.targets[1], bit)

(***************************************************************************)
(* deqode/circuit.py: Circuit.__init__, append, sample.  The loop of       *)
(* sample carries st = [m, results, log, err]: the tableau's matrix, the   *)
(* list results, the calls made on the tableau and the exception that      *)
(* ended the loop ("none" while it runs).  bits[k] is the random bit       *)
(* measure would read while gate k is applied.                             *)
(***************************************************************************)
\* sampleStep that applies the Measure gates only
sampleStepMeasuresOnly(st, gate, bit) ==
    LET r   == apply_to(gate, st.m, bit)
        rec == CallRecord(st.m, apply_op(gate), gate.targets, NoTableau, r)
    IN  IF ~gate.is_measure THEN st
        ELSE IF r.err # "none"
        THEN [st EXCEPT !.m = r.m, !.log = Append(@, rec), !.err = r.err]
        ELSE [st EXCEPT !.m = r.m, !.log = Append(@, rec),
                        !.results = Append(@, r.ret[1])]

sampleStep(st, gate, bit) ==
    LET r   == apply_to(gate, st.m, bit)
        rec == CallRecord(st.m, apply_op(gate), gate.targets, NoTableau, r)
    IN  IF r.err # "none"
        THEN [st EXCEPT !.m = r.m, !.log = Append(@, rec), !.err = r.err]
        ELSE IF gate.is_measure
        THEN [st EXCEPT !.m = r.m, !.log = Append(@, rec),
                        !.results = Append(@, r.ret[1])]
        ELSE [st EXCEPT !.m = r.m, !.log = Append(@, rec)]

RECURSIVE sampleLoop(_, _, _, _)
sampleLoop(st, gs, bits, k) ==
    IF k > Len(gs) \/ st.err # "none" THEN st
    ELSE sampleLoop(sampleStep(st, gs[k], bits[k]), gs, bits, k + 1)

sample(m, gs, bits) ==
    sampleLoop([m |-> m, results |-> <<>>, log |-> <<>>, err |-> "none"], gs, bits, 1)

\* the gates a caller can build for an n-qubit circuit: targets in 0..n
GateSet(n) ==
    {HadamardGate(t) : t \in 0..n}
    \cup {CNOTGate(c, t) : c \in 0..n, t \in 0..n}
    \cup {MeasureGate(t) : t \in 0..n}

\* the random bit of gate k matters only where the gate can read it
BitChoices(gs) ==
    {bits \in [1..Len(gs) -> BOOLEAN] : \A k \in 1..Len(gs) : bits[k] => gs[k].is_measure}

CircuitAppend(gate) ==
    /\ Len(gates) < MaxGates
    /\ gates' = Append(gates, gate)
    /\ UNCHANGED <<bmatrix, calls, samples>>

\* calls keeps the calls the latest sample() made on the tableau; a sample
\* record holds the exception ("none" when sample returned), the list returned
\* and the number of gates the circuit held
CircuitSample(bits) ==
    /\ Len(samples) < MaxSamples
    /\ LET st == sample(bmatrix, gates, bits)
       IN  /\ bmatrix' = st.m
           /\ calls' = st.log
           /\ samples' = Append(samples,
                                [err |-> st.err,
                                 ret |-> IF st.err = "none" THEN st.results ELSE <<>>,
                                 ngates |-> Len(gates)])
    /\ UNCHANGED gates

\* Circuit(nqubits)
InitCircuit ==
    /\ \E n \in 1..MaxN : bmatrix = zero(n).m
    /\ calls = <<>>
    /\ gates = <<>>
    /\ samples = <<>>

NextCircuit ==
    \/ \E gate \in GateSet(nqubits(bmatrix)) : CircuitAppend(gate)
    \/ \E bits \in BitChoices(gates) : CircuitSample(bits)

SpecCircuit == InitCircuit /\ [][NextCircuit]_vars

(***************************************************************************)
(* Properties.                                                             *)
(***************************************************************************)
\* the matrix call k left behind
Post(k) == IF k = Len(calls) THEN bmatrix ELSE calls[k + 1].pre

Ks == 1..Len(calls)

TableauOps == {"h", "phase", "cnot", "measure"}

\* the error kinds of the specification, as the code raises them
ShapeError == "ValueError"

RangeError == "AssertionError"

RECURSIVE SymplecticSum(_, _, _, _)
SymplecticSum(m, i, j, k) ==
    IF k >= nqubits(m) THEN 0
    ELSE int(m[i][k] /\ m[j][k + nqubits(m)]) + int(m[i][k + nqubits(m)] /\ m[j][k])
         + SymplecticSum(m, i, j, k + 1)

\* the symplectic product of rows i and j over the X/Z columns
SymplecticProduct(m, i, j) == SymplecticSum(m, i, j, 0) % 2

\* C1: in every state reachable from zero(n) by h, cnot and measure calls the
\* stabilizer rows n+i, n+j (i # j) commute and destabilizer row i
\* anticommutes with its stabilizer row n+i.
C1_SymplecticallyValid ==
    LET n == nqubits(bmatrix)
    IN  /\ \A i \in 0..(n - 1) : \A j \in 0..(n - 1) :
              i # j => SymplecticProduct(bmatrix, n + i, n + j) = 0
        /\ \A i \in 0..(n - 1) : SymplecticProduct(bmatrix, i, n + i) = 1

\* a random-branch measure of qubit a has just run rowsum on a stabilizer row
\* other than p that had x_ia set
C1_Witness ==
    /\ calls # <<>>
    /\ LET c == calls[Len(calls)]
           n == nqubits(bmatrix)
       IN  /\ c.op = "measure"
           /\ c.branch = "random"
           /\ \E i \in n..(2 * n - 1) :
                 /\ i # FirstP(c.pre, c.args[1])
                 /\ c.pre[i][c.args[1]]
                 /\ bmatrix[i] # c.pre[i]

\* calls k and k+1 are the same successful h(a)
HTwiceAt(k) ==
    /\ k + 1 <= Len(calls)
    /\ calls[k].op = "h"
    /\ calls[k + 1].op = "h"
    /\ calls[k].args = calls[k + 1].args
    /\ calls[k].err = "none"

\* C2: h(a) twice in a row on any tableau matrix leaves the matrix exactly as
\* it was before the first call.
C2_HTwiceIsIdentity ==
    \A k \in Ks : HTwiceAt(k) => (calls[k + 1].err = "none" /\ Post(k + 1) = calls[k].pre)

\* h(a) ran twice on a row with x_ia and z_ia both set, whose sign bit the
\* first call flipped
C2_Witness ==
    \E k \in Ks :
        /\ HTwiceAt(k)
        /\ \E i \in 0..(2 * nqubits(bmatrix) - 1) :
              /\ calls[k].pre[i][calls[k].args[1]]
              /\ calls[k].pre[i][calls[k].args[1] + nqubits(bmatrix)]
              /\ Post(k)[i][LastIx(bmatrix)] # calls[k].pre[i][LastIx(bmatrix)]

\* calls k-3..k are the same phase(a)
PhaseFourTimesAt(k) ==
    /\ k >= 4
    /\ \A d \in 0..3 : calls[k - d].op = "phase" /\ calls[k - d].args = calls[k].args

\* C3: phase(a) with a in [0, n) completes without error, and four in a row
\* leave the matrix exactly as it was before the first.
C3_PhaseFourTimesIsIdentity ==
    \A k \in Ks :
        (calls[k].op = "phase" /\ InRange(calls[k].pre, calls[k].args[1])) =>
            /\ calls[k].err = "none"
            /\ PhaseFourTimesAt(k) => Post(k) = calls[k - 3].pre

\* the calls are h(0), cnot(0, 1), measure(0), measure(1) on zero(2)
BellRun ==
    /\ Len(calls) = 4
    /\ calls[1].pre = zeroMatrix(2)
    /\ calls[1].op = "h" /\ calls[1].args = <<0>>
    /\ calls[2].op = "cnot" /\ calls[2].args = <<0, 1>>
    /\ calls[3].op = "measure" /\ calls[3].args = <<0>>
    /\ calls[4].op = "measure" /\ calls[4].args = <<1>>

\* C4: on the Bell state the measurement of qubit 0 is random, that of qubit 1
\* is deterministic, and the two outcomes are equal.
C4_BellOutcomesEqual ==
    BellRun =>
        /\ calls[3].branch = "random"
        /\ calls[4].branch = "deterministic"
        /\ calls[3].err = "none" /\ calls[4].err = "none"
        /\ calls[3].ret = calls[4].ret

\* the Bell run in which the random bit came out true
C4_Witness == BellRun /\ calls[3].ret = <<TRUE>>

OnlyMeasures == \A k \in Ks : calls[k].op = "measure"

\* C5: every call of a sequence of measure calls on zero(n) takes the
\* deterministic branch and returns false.
C5_ZeroStateMeasuresFalse ==
    OnlyMeasures =>
        \A k \in Ks : calls[k].branch = "deterministic" /\ calls[k].ret = <<FALSE>>

\* three measure calls and more, one qubit measured twice
C5_Witness ==
    /\ OnlyMeasures
    /\ Len(calls) >= 3
    /\ \E j \in Ks : \E k \in Ks : j # k /\ calls[j].args = calls[k].args
    /\ \E j \in Ks : \E k \in Ks : calls[j].args # calls[k].args

\* C6: a failing h, phase, cnot or measure leaves the matrix exactly as it was
\* before the call.
C6_FailureLeavesMatrix ==
    \A k \in Ks :
        (calls[k].op \in TableauOps /\ calls[k].err # "none") => Post(k) = calls[k].pre

\* the arguments of call k are not a valid request
BadArgs(k) ==
    \/ /\ calls[k].op \in {"h", "phase", "measure"}
       /\ ~InRange(calls[k].pre, calls[k].args[1])
    \/ /\ calls[k].op = "cnot"
       /\ \/ ~InRange(calls[k].pre, calls[k].args[1])
          \/ ~InRange(calls[k].pre, calls[k].args[2])
          \/ calls[k].args[1] = calls[k].args[2]

\* C7: an out-of-range qubit index, or cnot with equal control and target,
\* fails with the range error and leaves the matrix unchanged.
C7_BadArgsRaiseBeforeWrite ==
    \A k \in Ks :
        BadArgs(k) => (calls[k].err = RangeError /\ Post(k) = calls[k].pre)

\* cnot(a, a) with a in range was refused on a row that cnot would rewrite
C7_Witness ==
    \E k \in Ks :
        /\ calls[k].op = "cnot"
        /\ calls[k].args[1] = calls[k].args[2]
        /\ InRange(calls[k].pre, calls[k].args[1])
        /\ calls[k].err = RangeError
        /\ \E i \in 0..(2 * nqubits(bmatrix) - 1) : calls[k].pre[i][calls[k].args[1]]

\* C8: the constructor refuses a matrix with an even row count or with a row
\* count other than its column count, leaving no tableau, and stores a square
\* matrix of odd row count >= 3 unchanged.
C8_ConstructorShape ==
    \A k \in Ks :
        calls[k].op = "init" =>
            LET matrix == calls[k].given
            IN  /\ (Rows(matrix) % 2 = 0 \/ Rows(matrix) # Cols(matrix)) =>
                       (calls[k].err = ShapeError /\ Post(k) = NoTableau)
                /\ (Rows(matrix) % 2 = 1 /\ Rows(matrix) >= 3
                        /\ Rows(matrix) = Cols(matrix)) =>
                       (calls[k].err = "none" /\ Post(k) = matrix)

\* a matrix of 3 rows and 5 columns was refused
C8_Witness ==
    /\ Len(calls) = 1
    /\ calls[1].op = "init"
    /\ Rows(calls[1].given) = 3
    /\ Cols(calls[1].given) = 5
    /\ calls[1].err = ShapeError
    /\ bmatrix = NoTableau

\* C9: the constructor refuses a 1 x 1 matrix and zero(n) never makes a
\* tableau of 0 qubits.
C9_AtLeastOneQubit ==
    \A k \in Ks :
        /\ (calls[k].op = "init" /\ Rows(calls[k].given) = 1 /\ Cols(calls[k].given) = 1) =>
               calls[k].err = ShapeError
        /\ (calls[k].op = "zero" /\ calls[k].err = "none") => nqubits(Post(k)) >= 1

LastSample == samples[Len(samples)]

\* the values the measure calls among the first k calls returned, in order
RECURSIVE MeasureRets(_)
MeasureRets(k) ==
    IF k = 0 THEN <<>>
    ELSE IF calls[k].op = "measure" THEN Append(MeasureRets(k - 1), calls[k].ret[1])
    ELSE MeasureRets(k - 1)

\* C10: a sample() that returns has applied every gate once, in append order,
\* each to the matrix the gate before it left in the circuit's tableau, and
\* returns the outcomes of the Measure gates in that order and nothing else.
C10_SampleReplaysGates ==
    (samples # <<>> /\ LastSample.err = "none") =>
        /\ Len(calls) = LastSample.ngates
        /\ \A k \in Ks :
              /\ calls[k].op = apply_op(gates[k])
              /\ calls[k].args = gates[k].targets
              /\ calls[k].err = "none"
              /\ \E bit \in BOOLEAN : Post(k) = apply_to(gates[k], calls[k].pre, bit).m
        /\ (Len(samples) = 1 /\ calls # <<>>) => calls[1].pre = zeroMatrix(nqubits(bmatrix))
        /\ LastSample.ret = MeasureRets(Len(calls))
        /\ Len(LastSample.ret) = Cardinality({k \in 1..LastSample.ngates : gates[k].is_measure})

\* a sample of a gate that is no Measure gate and then a Measure gate returned
\* the one outcome, which only the first gate's effect on the tableau allows
C10_Witness ==
    /\ samples # <<>>
    /\ LastSample.err = "none"
    /\ LastSample.ngates = 2
    /\ ~gates[1].is_measure
    /\ gates[2].is_measure
    /\ LastSample.ret = <<TRUE>>

\* the lists the first sample() of a fresh Circuit(n) holding the gates gs can
\* return
FreshOutcomes(n, gs) ==
    {sample(zeroMatrix(n), gs, bits).results :
        bits \in {b \in BitChoices(gs) : sample(zeroMatrix(n), gs, b).err = "none"}}

\* C11: every sample() starts from the zero state: what a sample() call
\* returns, the second and later ones too, is a list the first sample() of a
\* fresh Circuit with the same gates can return.
C11_SamplesAreIndependent ==
    \A k \in 1..Len(samples) :
        samples[k].err = "none" =>
            samples[k].ret \in
                FreshOutcomes(nqubits(bmatrix), SubSeq(gates, 1, samples[k].ngates))

\* the matrix the text of h(a) describes: in every row i in [0, 2n) the sign
\* bit takes x_ia /\ z_ia of the bits before the call and x_ia, z_ia change
\* places; every other entry keeps its value
hExpected(pre, a) ==
    LET n == nqubits(pre)
    IN  [i \in DOMAIN pre |->
            [j \in DOMAIN pre[i] |->
                IF i >= 2 * n THEN pre[i][j]
                ELSE IF j = 2 * n THEN Xor(pre[i][2 * n], pre[i][a] /\ pre[i][a + n])
                ELSE IF j = a THEN pre[i][a + n]
                ELSE IF j = a + n THEN pre[i][a]
                ELSE pre[i][j]]]

\* the calls are the making of a tableau on matrix, h(0) and h(1)
HHRun(matrix) ==
    /\ Len(calls) = 3
    /\ calls[1].op \in {"init", "zero"}
    /\ calls[2].pre = matrix
    /\ calls[2].op = "h"
    /\ calls[2].args = <<0>>
    /\ calls[3].op = "h"
    /\ calls[3].args = <<1>>

\* C12: h(a) with a in [0, n) on any tableau completes and leaves exactly the
\* matrix described: sign bits r_i XOR (x_ia AND z_ia), x_ia and z_ia swapped
\* in rows [0, 2n), everything else and the scratch row unchanged; and
\* h(0); h(1) takes the zero(2) matrix to the one with rows 0,1 and rows 2,3
\* exchanged in their X/Z blocks, and the Bell matrix of the tests to the
\* matrix the tests expect.
C12_HChangesExactly ==
    /\ \A k \in Ks :
          (calls[k].op = "h" /\ InRange(calls[k].pre, calls[k].args[1])) =>
              /\ calls[k].err = "none"
              /\ Post(k) = hExpected(calls[k].pre, calls[k].args[1])
    /\ HHRun(zeroMatrix(2)) =>
          /\ bmatrix = Test00Target
          /\ \A i \in 0..3 : \A j \in 0..3 :
                bmatrix[i][j] = zeroMatrix(2)[(i + 2) % 4][j]
          /\ bmatrix[4] = zeroMatrix(2)[4]
    /\ HHRun(TestBellMatrix) => bmatrix = TestBellTarget

\* h(0); h(1) ran on the Bell matrix
C12_Witness == HHRun(TestBellMatrix) /\ calls[3].err = "none"

\* the matrix the text of cnot(a, b) describes, every bit read from the matrix
\* before the call
cnotExpected(pre, a, b) ==
    LET n == nqubits(pre)
    IN  [i \in DOMAIN pre |->
            [j \in DOMAIN pre[i] |->
                IF i >= 2 * n THEN pre[i][j]
                ELSE IF j = 2 * n
                     THEN Xor(pre[i][2 * n],
                              pre[i][a] /\ pre[i][b + n]
                                  /\ Xor(Xor(pre[i][b], pre[i][a + n]), TRUE))
                ELSE IF j = b THEN Xor(pre[i][b], pre[i][a])
                ELSE IF j = a + n THEN Xor(pre[i][a + n], pre[i][b + n])
                ELSE pre[i][j]]]

\* call k is cnot(a, b) with distinct a, b in [0, n)
GoodCnot(k) ==
    /\ calls[k].op = "cnot"
    /\ InRange(calls[k].pre, calls[k].args[1])
    /\ InRange(calls[k].pre, calls[k].args[2])
    /\ calls[k].args[1] # calls[k].args[2]

\* C13: cnot(a, b) with distinct a, b in [0, n) on any tableau completes and
\* leaves exactly the matrix described: in rows [0, 2n) the sign bit is
\* r_i XOR (x_ia AND z_ib AND (x_ib XOR z_ia XOR 1)), x_ib is x_ib XOR x_ia and
\* z_ia is z_ia XOR z_ib, all from the bits before the call; x_ia, z_ib, the
\* other columns and the scratch row are unchanged.
C13_CnotChangesExactly ==
    \A k \in Ks :
        GoodCnot(k) =>
            /\ calls[k].err = "none"
            /\ Post(k) = cnotExpected(calls[k].pre, calls[k].args[1], calls[k].args[2])

\* a cnot(a, b) ran on a matrix with a row whose sign bit it flips and whose
\* x_ib it sets
C13_Witness ==
    /\ Len(calls) = 2
    /\ GoodCnot(2)
    /\ \E i \in 0..(2 * nqubits(bmatrix) - 1) :
          /\ bmatrix[i][LastIx(bmatrix)] # calls[2].pre[i][LastIx(bmatrix)]
          /\ bmatrix[i][calls[2].args[2]] # calls[2].pre[i][calls[2].args[2]]

\* the matrix the text of phase(a) describes
phaseExpected(pre, a) ==
    LET n == nqubits(pre)
    IN  [i \in DOMAIN pre |->
            [j \in DOMAIN pre[i] |->
                IF i >= 2 * n THEN pre[i][j]
                ELSE IF j = 2 * n THEN Xor(pre[i][2 * n], pre[i][a] /\ pre[i][a + n])
                ELSE IF j = a + n THEN Xor(pre[i][a + n], pre[i][a])
                ELSE pre[i][j]]]

\* C14: phase(a) with a in [0, n) on any tableau completes and leaves exactly
\* the matrix described: in rows [0, 2n) the sign bit is
\* r_i XOR (x_ia AND z_ia) and z_ia is z_ia XOR x_ia, from the bits before the
\* call, read and written on the tableau's own matrix; every other entry is
\* unchanged.
C14_PhaseChangesExactly ==
    \A k \in Ks :
        (calls[k].op = "phase" /\ InRange(calls[k].pre, calls[k].args[1])) =>
            /\ calls[k].err = "none"
            /\ Post(k) = phaseExpected(calls[k].pre, calls[k].args[1])

\* the function g as the text gives it, by the pair (x1, z1)
gCases(x1, z1, x2, z2) ==
    CASE <<x1, z1>> = <<FALSE, FALSE>> -> 0
      [] <<x1, z1>> = <<TRUE, TRUE>> -> int(z2) - int(x2)
      [] <<x1, z1>> = <<TRUE, FALSE>> -> int(z2) * (2 * int(x2) - 1)
      [] <<x1, z1>> = <<FALSE, TRUE>> -> int(x2) * (1 - 2 * int(z2))

\* the sum over j in [k, n) of g with row i as (x1, z1) and row h as (x2, z2)
RECURSIVE gCasesSum(_, _, _, _)
gCasesSum(pre, h_, i, k) ==
    IF k >= nqubits(pre) THEN 0
    ELSE gCases(pre[i][k], pre[i][k + nqubits(pre)], pre[h_][k], pre[h_][k + nqubits(pre)])
         + gCasesSum(pre, h_, i, k + 1)

\* (2*r_i + 2*r_h + sum of g) mod 4 on the matrix pre
phaseValue(pre, h_, i) ==
    (2 * int(pre[i][2 * nqubits(pre)]) + 2 * int(pre[h_][2 * nqubits(pre)])
        + gCasesSum(pre, h_, i, 0)) % 4

\* row h as the text of rowsum(h, i) describes it
rowsumExpected(pre, h_, i) ==
    [j \in DOMAIN pre[h_] |->
        IF j = 2 * nqubits(pre) THEN phaseValue(pre, h_, i) # 0
        ELSE Xor(pre[h_][j], pre[i][j])]

\* the lowest row p in [n, 2n) with x_pa set
LowestXRow(pre, a) ==
    CHOOSE p \in nqubits(pre)..(2 * nqubits(pre) - 1) :
        /\ pre[p][a]
        /\ \A q \in nqubits(pre)..(p - 1) : ~pre[q][a]

\* some row in [n, 2n) has x_pa set
HasXRow(pre, a) == \E p \in nqubits(pre)..(2 * nqubits(pre) - 1) : pre[p][a]

\* what the text says of the matrix after the random branch
RandomBranchPost(pre, post, a, bit, ret) ==
    LET n == nqubits(pre)
        p == LowestXRow(pre, a)
    IN  /\ post[p - n] = pre[p]
        /\ post[p] = [j \in 0..(2 * n) |-> (j = a + n) \/ (j = 2 * n /\ bit)]
        /\ ret = <<post[p][2 * n]>>
        /\ \A i \in (0..(2 * n - 1)) \ {p, p - n} :
              IF pre[i][a]
              THEN post[i] = rowsumExpected(pre, i, p) /\ ~post[i][a]
              ELSE post[i] = pre[i]

\* C15: when measure(a) finds a stabilizer row with x_pa set, p the lowest
\* such row: afterwards row p-n is row p as it was, row p is all false but
\* z_pa and its sign bit, which is the drawn bit and the returned value, every
\* other row in [0, 2n) that had x_ia set is its rowsum with the old row p and
\* has x_ia clear, and the rows with x_ia clear are unchanged.
C15_RandomBranchPost ==
    [][\A a \in Qubits, bit \in BOOLEAN :
          (HasXRow(bmatrix, a) /\ Measure(a, bit)) =>
              RandomBranchPost(bmatrix, bmatrix', a, bit, calls'[Len(calls')].ret)]_vars

\* a measure(a) drew TRUE in the random branch on a matrix where a row other
\* than p and p-n had x_ia set, and p was not the first stabilizer row
C15_Witness ==
    /\ Len(calls) >= 2
    /\ calls[Len(calls)].op = "measure"
    /\ calls[Len(calls)].branch = "random"
    /\ calls[Len(calls)].ret = <<TRUE>>
    /\ LET pre == calls[Len(calls)].pre
           a   == calls[Len(calls)].args[1]
       IN  /\ LowestXRow(pre, a) > nqubits(pre)
           /\ \E i \in (0..(2 * nqubits(pre) - 1))
                        \ {LowestXRow(pre, a), LowestXRow(pre, a) - nqubits(pre)} :
                 pre[i][a]

\* pre with its scratch row 2n replaced by row
WithScratch(pre, row) == [pre EXCEPT ![2 * nqubits(pre)] = row]

\* the scratch row after rowsum(2n, i+n) for each i in [k, n) with x_ia set,
\* in increasing i, starting from row
RECURSIVE scratchExpected(_, _, _, _)
scratchExpected(pre, row, a, k) ==
    LET n == nqubits(pre)
    IN  IF k >= n THEN row
        ELSE IF pre[k][a]
             THEN scratchExpected(pre, rowsumExpected(WithScratch(pre, row), 2 * n, k + n),
                                  a, k + 1)
        ELSE scratchExpected(pre, row, a, k + 1)

\* call k is measure(a) with a in [0, n) and no row in [n, 2n) has x_pa set
DeterministicAt(k) ==
    /\ calls[k].op = "measure"
    /\ InRange(calls[k].pre, calls[k].args[1])
    /\ ~HasXRow(calls[k].pre, calls[k].args[1])

\* C16: when measure(a) finds no stabilizer row with x_pa set, it leaves every
\* row in [0, 2n) unchanged, writes only the scratch row (zeroed, then
\* rowsum(2n, i+n) for each destabilizer row i with x_ia set, in increasing i),
\* reads no random bit and returns the final sign bit of the scratch row.
C16_DeterministicFrame ==
    \A k \in Ks :
        DeterministicAt(k) =>
            LET pre == calls[k].pre
                a   == calls[k].args[1]
                n   == nqubits(pre)
            IN  /\ calls[k].err = "none"
                /\ \A i \in 0..(2 * n - 1) : Post(k)[i] = pre[i]
                /\ Post(k)[2 * n] = scratchExpected(pre, ZeroRow(2 * n + 1), a, 0)
                /\ calls[k].ret = <<Post(k)[2 * n][2 * n]>>
                /\ measure(pre, a, TRUE) = measure(pre, a, FALSE)

\* a measure(a) took the deterministic branch on a matrix whose scratch row
\* was not zero, combined a stabilizer row into the scratch row
C16_Witness ==
    /\ Len(calls) = 2
    /\ DeterministicAt(2)
    /\ calls[2].pre[2 * nqubits(bmatrix)] # ZeroRow(2 * nqubits(bmatrix) + 1)
    /\ \E i \in 0..(nqubits(bmatrix) - 1) : calls[2].pre[i][calls[2].args[1]]
    /\ bmatrix[2 * nqubits(bmatrix)] # calls[2].pre[2 * nqubits(bmatrix)]

\* calls k and k+1 are the same cnot(a, b) with distinct a, b in [0, n)
CnotTwiceAt(k) ==
    /\ k + 1 <= Len(calls)
    /\ GoodCnot(k)
    /\ calls[k + 1].op = "cnot"
    /\ calls[k + 1].args = calls[k].args

\* C17: for n >= 2 and distinct a, b in [0, n), the same cnot(a, b) twice in
\* a row on any tableau matrix leaves the matrix exactly as it was before the
\* first call, the sign bits included.
C17_CnotTwiceIsIdentity ==
    \A k \in Ks :
        CnotTwiceAt(k) =>
            /\ calls[k].err = "none"
            /\ calls[k + 1].err = "none"
            /\ Post(k + 1) = calls[k].pre

\* cnot(a, b) ran twice on a matrix not made by zero(n), and the first call
\* flipped a sign bit
C17_Witness ==
    \E k \in Ks :
        /\ CnotTwiceAt(k)
        /\ calls[1].op = "init"
        /\ \E i \in 0..(2 * nqubits(bmatrix) - 1) :
              Post(k)[i][LastIx(bmatrix)] # calls[k].pre[i][LastIx(bmatrix)]

\* calls k and k+1 are the same successful measure(a)
MeasureTwiceAt(k) ==
    /\ k + 1 <= Len(calls)
    /\ calls[k].op = "measure"
    /\ calls[k].err = "none"
    /\ calls[k + 1].op = "measure"
    /\ calls[k + 1].args = calls[k].args

\* C18: in the states reached from zero(n) by h, cnot and measure, a
\* measure(a) right after a measure(a) takes the deterministic branch, returns
\* what the first returned and leaves rows [0, 2n) unchanged.
C18_MeasureRepeatable ==
    \A k \in Ks :
        MeasureTwiceAt(k) =>
            /\ calls[k + 1].err = "none"
            /\ calls[k + 1].branch = "deterministic"
            /\ calls[k + 1].ret = calls[k].ret
            /\ \A i \in 0..(2 * nqubits(bmatrix) - 1) : Post(k + 1)[i] = Post(k)[i]

\* on the Bell state a measure(a) drew TRUE in the random branch and the
\* measure(a) after it returned TRUE
C18_Witness ==
    /\ Len(calls) = 4
    /\ calls[1].op = "h"
    /\ calls[2].op = "cnot"
    /\ MeasureTwiceAt(3)
    /\ calls[3].branch = "random"
    /\ calls[3].ret = <<TRUE>>
    /\ calls[4].ret = <<TRUE>>

\* row encodes plus or minus Z on qubit a of n: no X bit, and z_a its only Z bit
IsSignedZ(row, n, a) ==
    /\ \A j \in 0..(n - 1) : ~row[j]
    /\ \A j \in 0..(n - 1) : row[n + j] <=> (j = a)

\* C19: in the states reached from zero(n) by h, cnot and measure, after a
\* measure(a) in the deterministic branch the scratch row is plus or minus Z
\* on qubit a, and in each rowsum(2n, i+n) of that call
\* (2*r_i + 2*r_h + sum of g) mod 4 is 0 or 2.
C19_DeterministicScratchIsZ ==
    \A k \in Ks :
        DeterministicAt(k) =>
            LET pre == calls[k].pre
                a   == calls[k].args[1]
                n   == nqubits(pre)
            IN  /\ IsSignedZ(Post(k)[2 * n], n, a)
                /\ deterministicPhases(WithScratch(pre, ZeroRow(2 * n + 1)), a, 0)
                       \subseteq {0, 2}

\* a measure(a) in the deterministic branch combined two stabilizer rows into
\* the scratch row, with the value 2 in one of the two, and returned TRUE
C19_Witness ==
    /\ Len(calls) >= 1
    /\ DeterministicAt(Len(calls))
    /\ LET pre == calls[Len(calls)].pre
           a   == calls[Len(calls)].args[1]
       IN  /\ Cardinality({i \in 0..(nqubits(pre) - 1) : pre[i][a]}) = 2
           /\ 2 \in deterministicPhases(WithScratch(pre, ZeroRow(2 * nqubits(pre) + 1)), a, 0)
    /\ calls[Len(calls)].ret = <<TRUE>>

\* call k is rowsum(h, i) with h # i
RowsumAt(k) == calls[k].op = "rowsum" /\ calls[k].args[1] # calls[k].args[2]

\* C20: rowsum(h, i) with h # i changes only row h: its sign bit becomes
\* (2*r_i + 2*r_h + sum over j of g) mod 4 # 0, with g by the four cases of
\* (x1, z1) taken from row i and (x2, z2) from row h as it was before the
\* call, and each X and Z bit of row h becomes its XOR with the same bit of
\* row i; row i and all other rows are unchanged.
C20_RowsumChangesRowH ==
    \A k \in Ks :
        RowsumAt(k) =>
            /\ calls[k].err = "none"
            /\ Post(k)[calls[k].args[1]]
                   = rowsumExpected(calls[k].pre, calls[k].args[1], calls[k].args[2])
            /\ \A r \in DOMAIN calls[k].pre :
                   r # calls[k].args[1] => Post(k)[r] = calls[k].pre[r]

\* a rowsum(h, i) ran on two rows whose g values are 1 and -1, and row h,
\* whose sign bit was set, has it clear now
C20_Witness ==
    \E k \in Ks :
        /\ RowsumAt(k)
        /\ LET pre == calls[k].pre
               h_  == calls[k].args[1]
               i   == calls[k].args[2]
               n   == nqubits(pre)
           IN  /\ n = 2
               /\ {gCases(pre[i][j], pre[i][j + n], pre[h_][j], pre[h_][j + n]) : j \in 0..1}
                      = {1, -1}
               /\ pre[h_][2 * n]
               /\ pre[i][2 * n]
               /\ ~bmatrix[h_][2 * n]

=============================================================================
